---- MODULE Spec2Model ----
(***************************************************************************)
(* State-machine model of the two search tools of mmsearch_r1:             *)
(*   utils/tools/image_search.py  (cache-or-live reverse image search)     *)
(*   utils/tools/text_search.py   (search -> fetch -> summarize -> collate)*)
(* Python values are modelled as follows.  A str is a TLA+ string; the     *)
(* value None of a str-typed argument is the token None.  A report string  *)
(* is a record [head, lines]: head is the fixed first sentence and lines   *)
(* the numbered entries appended to it, in order.  A dict is a record      *)
(* whose DOMAIN is the dict's key set.  An Optional result is a sequence   *)
(* of length 0 (None) or 1.                                                *)
(***************************************************************************)
EXTENDS Integers, Sequences, FiniteSets, TLC

VARIABLES
    image_key,            \* image_search.SERPAPI_API_KEY
    cache_files,          \* the two pickle files under CACHE_DIR
    image_search_cache,   \* image_search._image_search_cache
    image_pc,             \* "idle" or "returned": position of the image caller
    image_req,            \* arguments and provider response of the last call
    image_ret,            \* what call_image_search returned
    image_trace,          \* outbound calls and file reads the last call made
    text_serpapi_key,     \* text_search.SERPAPI_API_KEY
    jina_key,             \* text_search.JINA_API_KEY
    openrouter_key,       \* text_search.OPENROUTER_API_KEY
    nest_asyncio_applied, \* whether the import of nest_asyncio succeeded
    text_pc,              \* position of the text request
    text_req,             \* entry point and arguments of the text request
    session,              \* the aiohttp.ClientSession of the request
    search_urls,          \* the local search_urls of async_text_search
    units,                \* the process_url_async tasks handed to gather
    finished,             \* indices of the tasks in the order they completed
    text_net,             \* outbound calls issued by the request, per provider
    text_ret,             \* what async_text_search returned
    loader_pc,            \* per thread: position inside _load_image_search_cache
    loader_split,         \* per thread: the split argument
    loader_value,         \* per thread: the dict it holds (unpickled, then returned)
    file_loads,           \* per split: how often the cache file was opened for loading
    cache_sets            \* per split: how often _image_search_cache[split] was assigned

image_vars == <<image_key, cache_files, image_search_cache, image_pc, image_req,
                image_ret, image_trace>>

text_vars == <<text_serpapi_key, jina_key, openrouter_key, nest_asyncio_applied, text_pc,
               text_req, session, search_urls, units, finished, text_net, text_ret>>

loader_vars == <<loader_pc, loader_split, loader_value, file_loads, cache_sets>>

(***************************************************************************)
(* Bounds of the model.                                                    *)
(***************************************************************************)
MaxTopK == 2
MaxRefs == 2
MaxMatches == 2
MaxLinks == 3
MaxThreads == 2

(***************************************************************************)
(* Python helpers.                                                         *)
(***************************************************************************)
None == "<None>"

Min(a, b) == IF a < b THEN a ELSE b
Max(a, b) == IF a > b THEN a ELSE b

\* bool(x) of a str-or-None value
Truthy(x) == x # None /\ x # ""

\* a or b
Or(a, b) == IF Truthy(a) THEN a ELSE b

\* s[:k]
SliceIdentity(s, k) == s
Slice(s, k) ==
    IF k >= 0 THEN SubSeq(s, 1, Min(k, Len(s)))
    ELSE SubSeq(s, 1, Max(Len(s) + k, 0))

\* every sequence over S of length at most n
SeqsUpTo(S, n) == UNION {[1..k -> S] : k \in 0..n}

(***************************************************************************)
(* Strings the code starts with or matches on.                             *)
(***************************************************************************)
HttpUrls == {"http://img.example/404.jpg"}
HttpsUrls == {"https://img.example/ok.jpg", "https://example.com/query.jpg",
              "https://site.example/page"}

startswith_http(u) == u \in HttpUrls
startswith_https(u) == u \in HttpsUrls

\* "train" in str(data_source).lower()
TrainSources == {"FVQA_Train"}
contains_train(data_source) == data_source \in TrainSources

(***************************************************************************)
(* Report strings of image_search.py.                                      *)
(***************************************************************************)
IMAGE_PREAMBLE == "[Image Search Results] The result of the image search consists of web page information related to the image from the user's original question. Each result includes the main image from the web page and its title, ranked in descending order of search relevance, as demonstrated below:\n"
IMAGE_ERROR == "[Image Search Results] There is an error encountered in performing search. Please reason with your own capaibilities."
IMAGE_NO_RESULTS == "[Image Search Results] No relevant results found for the provided image."

Report(head, lines) == [head |-> head, lines |-> lines]

\* f"{idx}. image: <|vision_start|><|image_pad|><|vision_end|>\ntitle: {title}\n"
\* followed by the optional source: and link: lines
ImageLine(idx, title, source, link) ==
    [idx |-> idx, image |-> TRUE, title |-> title, source |-> source, link |-> link]

\* f"{idx}. title: {title}\n" followed by the optional source: and link: lines
TitleLine(idx, title, source, link) ==
    [idx |-> idx, image |-> FALSE, title |-> title, source |-> source, link |-> link]

\* f"Result {n}"
ResultTitle(n) == "Result " \o ToString(n)

(***************************************************************************)
(* ImageFetcher: download_image_from_url.  The web is a fixed function of  *)
(* the URL: one URL serves a decodable image, every other request fails.   *)
(***************************************************************************)
DownloadableUrls == {"https://img.example/ok.jpg"}

download_image_from_url(image_url) ==
    IF image_url \in DownloadableUrls
    THEN <<[src |-> image_url, mode |-> "RGB"]>>
    ELSE <<>>

(***************************************************************************)
(* The persisted cache partitions.  A cache key is a tuple; the value None *)
(* of data_id is the empty tuple.  Both pickle files hold the same         *)
(* mapping: one entry for every title count and every reference list up to *)
(* MaxRefs, so a key names the shape of its entry.                         *)
(***************************************************************************)
Splits == {"train", "test"}

NoId == <<>>
UnknownId == <<"fvqa-unknown">>

\* a stored reference: an already-decoded PIL image or a str
RefKinds ==
    { [type |-> "Image", value |-> "<PIL.Image mode=RGBA>"],
      [type |-> "str", value |-> "https://img.example/ok.jpg"],
      [type |-> "str", value |-> "http://img.example/404.jpg"],
      [type |-> "str", value |-> "images/local.jpg"] }

StoredTitle(i) == "Title " \o ToString(i)

CacheIds == {<<"fvqa", nt, refs>> : nt \in 0..MaxRefs, refs \in SeqsUpTo(RefKinds, MaxRefs)}

CacheEntry(id) ==
    [tool_returned_web_title_list |-> [i \in 1..id[2] |-> StoredTitle(i)],
     tool_returned_images_urls |-> id[3]]

PickledCache == [id \in CacheIds |-> CacheEntry(id)]

EmptyDict == [id \in {} |-> CacheEntry(<<"fvqa", 0, <<>>>>)]

\* _image_search_cache = {"train": None, "test": None}.  A slot of the module
\* global holds None or a reference to a dict: the empty dict or the unpickled one.
NotLoaded == "None"
EmptyRef == "{}"
PickledRef == "pickle.load(f)"

Deref(ref) == IF ref = PickledRef THEN PickledCache ELSE EmptyDict

FileStates == {"missing", "unreadable", "ok"}

(***************************************************************************)
(* _load_image_search_cache(split).  Returns the mapping, the new value of *)
(* the module global, and the file reads it made.                          *)
(***************************************************************************)
_load_image_search_cache_forgets(split, cache, files) ==
    IF cache[split] = NotLoaded
    THEN [value |-> IF files[split] = "ok" THEN Deref(PickledRef) ELSE Deref(EmptyRef),
          cache |-> [cache EXCEPT ![split] = IF files[split] = "ok" THEN PickledRef ELSE EmptyRef],
          trace |-> IF files[split] # "missing" THEN <<"pickle.load:" \o split>> ELSE <<>>]
    ELSE [value |-> EmptyDict, cache |-> cache, trace |-> <<>>]
_load_image_search_cache(split, cache, files) ==
    IF cache[split] = NotLoaded
    THEN IF files[split] # "missing"
         THEN IF files[split] = "ok"
              THEN [value |-> Deref(PickledRef),
                    cache |-> [cache EXCEPT ![split] = PickledRef],
                    trace |-> <<"pickle.load:" \o split>>]
              ELSE [value |-> Deref(EmptyRef),
                    cache |-> [cache EXCEPT ![split] = EmptyRef],
                    trace |-> <<"pickle.load:" \o split>>]
         ELSE [value |-> Deref(EmptyRef),
               cache |-> [cache EXCEPT ![split] = EmptyRef],
               trace |-> <<>>]
    ELSE [value |-> Deref(cache[split]), cache |-> cache, trace |-> <<>>]

(***************************************************************************)
(* call_image_search, cache branch (lines 116-159).                        *)
(***************************************************************************)
image_urls_to_process(tool_returned_images_urls, top_k) ==
    Slice(tool_returned_images_urls, top_k)

titles_to_process(titles, urls_to_process, top_k) ==
    IF Len(titles) >= Len(urls_to_process)
    THEN Slice(titles, top_k)
    ELSE titles \o [i \in 1..(Len(urls_to_process) - Len(titles)) |-> ResultTitle(i)]

\* zip(a, b)
Zip(a, b) == [i \in 1..Min(Len(a), Len(b)) |-> <<a[i], b[i]>>]

\* one iteration of the loop over the cached entries
CachedEntry(idx, img_url, title, acc) ==
    IF img_url.type = "Image"
    THEN [images |-> Append(acc.images, [src |-> img_url.value, mode |-> "RGBA"]),
          lines |-> Append(acc.lines, ImageLine(idx, title, "", "")),
          trace |-> acc.trace]
    ELSE IF img_url.type = "str" /\ (startswith_http(img_url.value) \/ startswith_https(img_url.value))
    THEN LET image == download_image_from_url(img_url.value) IN
         IF image # <<>>
         THEN [images |-> acc.images \o image,
               lines |-> Append(acc.lines, ImageLine(idx, title, "", "")),
               trace |-> Append(acc.trace, "requests.get:image")]
         ELSE [images |-> acc.images,
               lines |-> Append(acc.lines, TitleLine(idx, title, "", "")),
               trace |-> Append(acc.trace, "requests.get:image")]
    ELSE [images |-> acc.images,
          lines |-> Append(acc.lines, TitleLine(idx, title, "", "")),
          trace |-> acc.trace]

RECURSIVE CachedLoop(_, _, _)
CachedLoop(pairs, idx, acc) ==
    IF idx > Len(pairs) THEN acc
    ELSE CachedLoop(pairs, idx + 1, CachedEntry(idx, pairs[idx][1], pairs[idx][2], acc))

tool_success_any_line(images, lines) == Len(lines) > 0
tool_success(images, lines) == Len(images) > 0

ResolveFromCacheKeepsReport(cache_data, top_k) ==
    LET urls == image_urls_to_process(cache_data.tool_returned_images_urls, top_k)
        titles == titles_to_process(cache_data.tool_returned_web_title_list, urls, top_k)
        done == CachedLoop(Zip(urls, titles), 1, [images |-> <<>>, lines |-> <<>>, trace |-> <<>>])
        ok == tool_success(done.images, done.lines)
    IN  [str |-> Report(IMAGE_PREAMBLE, done.lines),
         images |-> done.images,
         stat |-> [success |-> ok, num_images |-> Len(done.images),
                   num_results |-> Len(urls), source |-> "cache"],
         trace |-> done.trace]
ResolveFromCache(cache_data, top_k) ==
    LET urls == image_urls_to_process(cache_data.tool_returned_images_urls, top_k)
        titles == titles_to_process(cache_data.tool_returned_web_title_list, urls, top_k)
        done == CachedLoop(Zip(urls, titles), 1, [images |-> <<>>, lines |-> <<>>, trace |-> <<>>])
        ok == tool_success(done.images, done.lines)
    IN  [str |-> IF ok THEN Report(IMAGE_PREAMBLE, done.lines) ELSE Report(IMAGE_ERROR, <<>>),
         images |-> done.images,
         stat |-> [success |-> ok, num_images |-> Len(done.images),
                   num_results |-> Len(urls), source |-> "cache"],
         trace |-> done.trace]

(***************************************************************************)
(* The live provider (SerpAPI Google Lens).  A response is what            *)
(* requests.get and response.json() produce: an exception, a non-200       *)
(* status, a JSON body that is no dict, a search_metadata status other     *)
(* than Success, or a body with its visual_matches list.  A match is a     *)
(* dict (absent keys read as "") or, in a malformed body, no dict at all.  *)
(***************************************************************************)
Match(thumbnail, image, title, source, link) ==
    [isdict |-> TRUE, thumbnail |-> thumbnail, image |-> image, title |-> title,
     source |-> source, link |-> link]

MatchKinds ==
    { Match("https://img.example/ok.jpg", "", "Eiffel Tower", "wikipedia", "https://site.example/page"),
      Match("http://img.example/404.jpg", "https://img.example/ok.jpg", "", "", "https://site.example/page"),
      Match("", "https://img.example/ok.jpg", "Tower at night", "flickr", ""),
      Match("", "", "Champ de Mars", "", ""),
      [isdict |-> FALSE, thumbnail |-> "", image |-> "", title |-> "", source |-> "", link |-> ""] }

NoResponse == [outcome |-> "not called", visual_matches |-> <<>>]

FailedResponses ==
    { [outcome |-> o, visual_matches |-> <<>>] :
        o \in {"RequestException", "status_code != 200", "body is no dict", "status != Success"} }

ProviderResponses ==
    FailedResponses \cup
    { [outcome |-> "Success", visual_matches |-> m] : m \in SeqsUpTo(MatchKinds, MaxMatches) }

\* what the provider may answer to a query URL that is no HTTP(S) URL
FallbackResponses ==
    FailedResponses \cup
    { [outcome |-> "Success", visual_matches |-> m] : m \in SeqsUpTo(MatchKinds, 1) }

INITIAL_STAT == [success |-> FALSE, num_images |-> 0, num_results |-> 0, error |-> None]

ERR_NO_URL == "Image URL is not set and no data_id provided. Cannot perform search."
ERR_NO_KEY == "SERPAPI_API_KEY is not set. Please set it as an environment variable or update the code."
ERR_STATUS_CODE == "SerpAPI returned status code "
ERR_SEARCH_FAILED == "Search failed with status: "
ERR_NETWORK == "Network error when calling SerpAPI: "
ERR_UNEXPECTED == "Unexpected error during image search: "

\* KEY == "REDACTED" or not KEY
KeyMissing(key) == key = "REDACTED" \/ ~Truthy(key)

\* one iteration of the loop over the live matches (lines 228-264)
LiveEntry(idx, result, acc) ==
    IF ~result.isdict
    THEN acc    \* result.get raises AttributeError: except ... continue
    ELSE LET thumbnail_url == Or(result.thumbnail, result.image)
             title == Or(result.title, ResultTitle(idx))
         IN  IF Truthy(thumbnail_url)
             THEN LET image == download_image_from_url(thumbnail_url) IN
                  IF image # <<>>
                  THEN [images |-> acc.images \o image,
                        lines |-> Append(acc.lines, ImageLine(idx, title, result.source, result.link)),
                        trace |-> Append(acc.trace, "requests.get:image")]
                  ELSE [images |-> acc.images,
                        lines |-> Append(acc.lines, TitleLine(idx, title, result.source, result.link)),
                        trace |-> Append(acc.trace, "requests.get:image")]
             ELSE [images |-> acc.images,
                   lines |-> Append(acc.lines, TitleLine(idx, title, result.source, result.link)),
                   trace |-> acc.trace]

RECURSIVE LiveLoop(_, _, _)
LiveLoop(search_results, idx, acc) ==
    IF idx > Len(search_results) THEN acc
    ELSE LiveLoop(search_results, idx + 1, LiveEntry(idx, search_results[idx], acc))

FailedWithoutError(error_msg, trace) ==
    [str |-> Report(IMAGE_ERROR, <<>>), images |-> <<>>, stat |-> INITIAL_STAT, trace |-> trace]
Failed(error_msg, trace) ==
    [str |-> Report(IMAGE_ERROR, <<>>), images |-> <<>>,
     stat |-> [INITIAL_STAT EXCEPT !.error = error_msg], trace |-> trace]

\* the provider answered without visual matches (lines 215-223)
NoVisualMatchesAsError(trace) == Failed(ERR_UNEXPECTED, trace)
NoVisualMatches(trace) ==
    [str |-> Report(IMAGE_NO_RESULTS, <<>>), images |-> <<>>,
     stat |-> INITIAL_STAT, trace |-> trace]

(***************************************************************************)
(* call_image_search from the API-key check on (lines 169-292).            *)
(***************************************************************************)
QueryLive(image_url, top_k, key, resp) ==
    IF KeyMissing(key)
    THEN Failed(ERR_NO_KEY, <<"check_api_key">>)
    ELSE LET called == <<"check_api_key", "requests.get:serpapi">> IN
         CASE resp.outcome = "RequestException" -> Failed(ERR_NETWORK, called)
           [] resp.outcome = "status_code != 200" -> Failed(ERR_STATUS_CODE, called)
           [] resp.outcome = "body is no dict" -> Failed(ERR_UNEXPECTED, called)
           [] resp.outcome = "status != Success" -> Failed(ERR_SEARCH_FAILED, called)
           [] OTHER ->
                IF resp.visual_matches = <<>>
                THEN NoVisualMatches(called)
                ELSE LET search_results == Slice(resp.visual_matches, top_k)
                         done == LiveLoop(search_results, 1,
                                          [images |-> <<>>, lines |-> <<>>, trace |-> called])
                         ok == tool_success(done.images, done.lines)
                     IN  [str |-> IF ok THEN Report(IMAGE_PREAMBLE, done.lines)
                                  ELSE Report(IMAGE_ERROR, <<>>),
                          images |-> done.images,
                          stat |-> [success |-> ok, num_images |-> Len(done.images),
                                    num_results |-> Len(search_results)],
                          trace |-> done.trace]

(***************************************************************************)
(* call_image_search(image_url, top_k, search_type, data_id, data_source). *)
(* search_type only travels to the provider and is left out.  The result   *)
(* carries the returned tuple (str, images, stat), the module global after *)
(* the call, and the trace of the outbound calls and file reads made.      *)
(***************************************************************************)
WithCache(r, cache, trace) ==
    [str |-> r.str, images |-> r.images, stat |-> r.stat, cache |-> cache,
     trace |-> trace \o r.trace]

\* neither a usable URL nor a data_id (lines 162-167)
NoUrlNoIdFallsThrough(image_url, top_k, key, cache, resp) ==
    WithCache(QueryLive(image_url, top_k, key, resp), cache, <<>>)
NoUrlNoId(image_url, top_k, key, cache, resp) ==
    WithCache(Failed(ERR_NO_URL, <<>>), cache, <<>>)

call_image_search_key_first(image_url, top_k, data_id, data_source, key, cache, files, resp) ==
    IF KeyMissing(key)
    THEN WithCache(Failed(ERR_NO_KEY, <<"check_api_key">>), cache, <<>>)
    ELSE IF ~Truthy(image_url) \/ (~startswith_http(image_url) /\ ~startswith_https(image_url))
         THEN IF data_id # NoId
              THEN LET split == IF Truthy(data_source) /\ contains_train(data_source)
                                THEN "train" ELSE "test"
                       load == _load_image_search_cache(split, cache, files)
                       opened == <<"check_api_key", "load_cache:" \o split>> \o load.trace
                   IN  IF data_id \in DOMAIN load.value
                       THEN WithCache(ResolveFromCache(load.value[data_id], top_k), load.cache, opened)
                       ELSE WithCache(QueryLive(image_url, top_k, key, resp), load.cache, opened)
              ELSE NoUrlNoId(image_url, top_k, key, cache, resp)
         ELSE WithCache(QueryLive(image_url, top_k, key, resp), cache, <<>>)
call_image_search_cache_first(image_url, top_k, data_id, data_source, key, cache, files, resp) ==
    IF data_id # NoId
    THEN LET split == IF Truthy(data_source) /\ contains_train(data_source)
                      THEN "train" ELSE "test"
             load == _load_image_search_cache(split, cache, files)
             opened == <<"load_cache:" \o split>> \o load.trace
         IN  IF data_id \in DOMAIN load.value
             THEN WithCache(ResolveFromCache(load.value[data_id], top_k), load.cache, opened)
             ELSE WithCache(QueryLive(image_url, top_k, key, resp), load.cache, opened)
    ELSE IF ~Truthy(image_url) \/ (~startswith_http(image_url) /\ ~startswith_https(image_url))
         THEN NoUrlNoId(image_url, top_k, key, cache, resp)
         ELSE WithCache(QueryLive(image_url, top_k, key, resp), cache, <<>>)
call_image_search(image_url, top_k, data_id, data_source, key, cache, files, resp) ==
    IF ~Truthy(image_url) \/ (~startswith_http(image_url) /\ ~startswith_https(image_url))
    THEN IF data_id # NoId
         THEN LET split == IF Truthy(data_source) /\ contains_train(data_source)
                           THEN "train" ELSE "test"
                  load == _load_image_search_cache(split, cache, files)
                  opened == <<"load_cache:" \o split>> \o load.trace
              IN  IF data_id \in DOMAIN load.value
                  THEN WithCache(ResolveFromCache(load.value[data_id], top_k), load.cache, opened)
                  ELSE WithCache(QueryLive(image_url, top_k, key, resp), load.cache, opened)
         ELSE NoUrlNoId(image_url, top_k, key, cache, resp)
    ELSE WithCache(QueryLive(image_url, top_k, key, resp), cache, <<>>)

(***************************************************************************)
(* The image tool as a state machine: a caller invokes call_image_search   *)
(* and takes the returned tuple; the module globals persist across calls.  *)
(***************************************************************************)
KeyValues == {"", "REDACTED", "sk-live"}

ImageUrls == {"", "images/local.jpg", "https://example.com/query.jpg"}
TopKs == 1..MaxTopK
DataSources == {None, "FVQA_Train"}
DataIds == {NoId, UnknownId} \cup CacheIds
SampleId == <<"fvqa", 0, <<>>>>

IsHttpUrl(u) == startswith_http(u) \/ startswith_https(u)

ImageRequests ==
    { [image_url |-> u, top_k |-> k, data_id |-> d, data_source |-> s] :
        u \in {""}, k \in TopKs, d \in DataIds, s \in DataSources }
    \cup
    { [image_url |-> u, top_k |-> k, data_id |-> d, data_source |-> s] :
        u \in {x \in ImageUrls : Truthy(x) /\ ~IsHttpUrl(x)}, k \in TopKs,
        d \in {NoId, UnknownId, SampleId}, s \in DataSources }
    \cup
    { [image_url |-> u, top_k |-> k, data_id |-> d, data_source |-> s] :
        u \in {x \in ImageUrls : IsHttpUrl(x)}, k \in TopKs,
        d \in {NoId, SampleId}, s \in DataSources }

Range(s) == {s[i] : i \in 1..Len(s)}

Run(req, resp) ==
    call_image_search(req.image_url, req.top_k, req.data_id, req.data_source,
                      image_key, image_search_cache, cache_files, resp)

\* the answers the provider can give to this call, if the call reaches it
ResponsesFor(req) ==
    IF "requests.get:serpapi" \in Range(Run(req, NoResponse).trace)
    THEN IF IsHttpUrl(req.image_url) THEN ProviderResponses ELSE FallbackResponses
    ELSE {NoResponse}

NoRequest == [image_url |-> None, top_k |-> 0, data_id |-> NoId, data_source |-> None,
              resp |-> NoResponse]
NoReturn == [str |-> Report("", <<>>), images |-> <<>>, stat |-> [pending |-> TRUE]]

ImageInit ==
    /\ image_key \in KeyValues
    /\ cache_files \in [Splits -> FileStates]
    /\ image_search_cache = [s \in Splits |-> NotLoaded]
    /\ image_pc = "idle"
    /\ image_req = NoRequest
    /\ image_ret = NoReturn
    /\ image_trace = <<>>

CallImageSearch ==
    /\ image_pc = "idle" /\ text_pc = "idle"
    /\ \E req \in ImageRequests : \E resp \in ResponsesFor(req) :
         LET r == Run(req, resp) IN
         /\ image_req' = [image_url |-> req.image_url, top_k |-> req.top_k,
                          data_id |-> req.data_id, data_source |-> req.data_source,
                          resp |-> resp]
         /\ image_ret' = [str |-> r.str, images |-> r.images, stat |-> r.stat]
         /\ image_trace' = r.trace
         /\ image_search_cache' = r.cache
         /\ file_loads' = [s \in Splits |->
                              file_loads[s] + IF ("pickle.load:" \o s) \in Range(r.trace)
                                              THEN 1 ELSE 0]
         /\ cache_sets' = [s \in Splits |->
                              cache_sets[s] + IF r.cache[s] # image_search_cache[s]
                                              THEN 1 ELSE 0]
    /\ image_pc' = "returned"
    /\ UNCHANGED <<image_key, cache_files>>
    /\ UNCHANGED text_vars
    /\ UNCHANGED <<loader_pc, loader_split, loader_value>>

ImageReturn ==
    /\ image_pc = "returned"
    /\ image_pc' = "idle"
    /\ image_req' = NoRequest
    /\ image_ret' = NoReturn
    /\ image_trace' = <<>>
    /\ UNCHANGED <<image_key, cache_files, image_search_cache>>
    /\ UNCHANGED text_vars
    /\ UNCHANGED loader_vars

(***************************************************************************)
(* text_search.py.  The web is a fixed function of the URL: what Jina      *)
(* returns for a page and what OpenRouter answers for its text.            *)
(***************************************************************************)
DEFAULT_TOP_K == 3

TEXT_PREAMBLE == "[Text Search Results] Below are the text summaries of the most relevant webpages related to your query, ranked in descending order of relevance:\n"
TEXT_ERROR == "[Text Search Results] There is an error encountered in performing search. Please reason with your own capaibilities."
TEXT_NO_RESULTS == "[Text Search Results] No relevant results found for the provided query."

ERR_SERPAPI_KEY == "SERPAPI_API_KEY is not set. Please set it as an environment variable."
ERR_JINA_KEY == "JINA_API_KEY is not set. Please set it as an environment variable."
ERR_OPENROUTER_KEY == "OPENROUTER_API_KEY is not set. Please set it as an environment variable."

LinkUrls == {"https://a.example/", "https://b.example/", "https://c.example/", "https://d.example/"}

\* fetch_webpage_text_async: the page text, "" on a non-200 status or an exception
fetch_webpage_text(url) ==
    CASE url = "https://a.example/" -> "text of page a"
      [] url = "https://c.example/" -> "text of page c"
      [] url = "https://d.example/" -> "text of page d"
      [] OTHER -> ""

\* call_openrouter_async: the assistant's content, None on any failure
call_openrouter(page_text) ==
    CASE page_text = "text of page a" -> "  Summary of a.\n"
      [] page_text = "text of page c" -> "Summary of c."
      [] OTHER -> None

\* str.strip()
strip(str) == IF str = "  Summary of a.\n" THEN "Summary of a." ELSE str

\* generate_summary_async
generate_summary(page_text) ==
    LET response == call_openrouter(page_text) IN
    IF Truthy(response) THEN strip(response) ELSE ""

\* an item of organic_results: a dict with or without the key "link"
OrganicItems == {[haslink |-> TRUE, link |-> u] : u \in LinkUrls} \cup {[haslink |-> FALSE, link |-> ""]}

\* what SerpAPI may answer; the code takes the items as they come, repeats included
SearchResponses ==
    { [outcome |-> o, organic_results |-> <<>>] :
        o \in {"exception", "status != 200", "no organic_results"} }
    \cup { [outcome |-> "ok", organic_results |-> r] : r \in SeqsUpTo(OrganicItems, MaxLinks) }

\* perform_search_async: the links of the items that have one, [] on any failure
perform_search(resp) ==
    IF resp.outcome = "ok"
    THEN LET items == SelectSeq(resp.organic_results, LAMBDA item : item.haslink)
         IN  [i \in 1..Len(items) |-> items[i].link]
    ELSE <<>>

TEXT_INITIAL_STAT == [success |-> FALSE, num_results |-> 0, error |-> None]

NoSearchResponse == [outcome |-> "not called", organic_results |-> <<>>]
NoTextReturn == [str |-> Report("", <<>>), stat |-> [pending |-> TRUE]]

\* what async_text_search does with the links of the search stage (lines 218-226):
\* return the no-results report, or go on with the first top_k links
search_stage_generic_error(links, top_k) ==
    IF links = <<>>
    THEN [returns |-> TRUE, urls |-> <<>>,
          ret |-> [str |-> Report(TEXT_ERROR, <<>>), stat |-> TEXT_INITIAL_STAT]]
    ELSE [returns |-> FALSE, urls |-> Slice(links, top_k), ret |-> NoTextReturn]
search_stage(links, top_k) ==
    IF links = <<>>
    THEN [returns |-> TRUE, urls |-> <<>>,
          ret |-> [str |-> Report(TEXT_NO_RESULTS, <<>>), stat |-> TEXT_INITIAL_STAT]]
    ELSE [returns |-> FALSE, urls |-> Slice(links, top_k), ret |-> NoTextReturn]

\* the credential checks of async_text_search: the error of the first missing key, or None
CredentialErrorNoSearchKeyCheck(serpapi, jina, openrouter) ==
    IF KeyMissing(jina) THEN ERR_JINA_KEY
    ELSE IF KeyMissing(openrouter) THEN ERR_OPENROUTER_KEY
    ELSE None
CredentialError(serpapi, jina, openrouter) ==
    IF KeyMissing(serpapi) THEN ERR_SERPAPI_KEY
    ELSE IF KeyMissing(jina) THEN ERR_JINA_KEY
    ELSE IF KeyMissing(openrouter) THEN ERR_OPENROUTER_KEY
    ELSE None

\* asyncio.gather(*url_tasks): the results in the order of the tasks
gather_as_completed(tasks, order) == [j \in 1..Len(order) |-> tasks[order[j]].result]
gather(tasks, order) == [i \in 1..Len(tasks) |-> tasks[i].result]

\* await asyncio.gather(...) resumes once every task has resolved
gather_first_completed(tasks) == \E i \in 1..Len(tasks) : tasks[i].pc = "done"
gather_resolved(tasks) == \A i \in 1..Len(tasks) : tasks[i].pc = "done"

\* [result for result in url_results if result is not None]
valid_results_until_failure(url_results) ==
    LET failed == {i \in 1..Len(url_results) : url_results[i] = <<>>} IN
    IF failed = {} THEN url_results
    ELSE SubSeq(url_results, 1, (CHOOSE i \in failed : \A j \in failed : i <= j) - 1)
valid_results(url_results) == SelectSeq(url_results, LAMBDA result : result # <<>>)

\* f"{idx}. ({url}) {summary}\n"
TextLine(idx, summary, url) == [idx |-> idx, url |-> url, summary |-> summary]

\* the collate stage of async_text_search (lines 233-248)
collate_counts_all(url_results) ==
    LET valid == valid_results(url_results) IN
    IF valid = <<>>
    THEN [str |-> Report(TEXT_ERROR, <<>>), stat |-> TEXT_INITIAL_STAT]
    ELSE [str |-> Report(TEXT_PREAMBLE,
                         [idx \in 1..Len(valid) |-> TextLine(idx, valid[idx][1][1], valid[idx][1][2])]),
          stat |-> [TEXT_INITIAL_STAT EXCEPT !.success = TRUE, !.num_results = Len(url_results)]]
collate(url_results) ==
    LET valid == valid_results(url_results) IN
    IF valid = <<>>
    THEN [str |-> Report(TEXT_ERROR, <<>>), stat |-> TEXT_INITIAL_STAT]
    ELSE [str |-> Report(TEXT_PREAMBLE,
                         [idx \in 1..Len(valid) |-> TextLine(idx, valid[idx][1][1], valid[idx][1][2])]),
          stat |-> [TEXT_INITIAL_STAT EXCEPT !.success = TRUE, !.num_results = Len(valid)]]

NoTextRequest == [entry |-> "none", top_k |-> 0, top_k_type |-> "int", loop_running |-> FALSE,
                  resp |-> NoSearchResponse]
NoCalls == [search |-> 0, extract |-> 0, summarize |-> 0]

TextIdle ==
    /\ text_pc = "idle"
    /\ text_req = NoTextRequest
    /\ session = "none"
    /\ search_urls = <<>>
    /\ units = <<>>
    /\ finished = <<>>
    /\ text_net = NoCalls
    /\ text_ret = NoTextReturn

\* JINA_API_KEY and OPENROUTER_API_KEY: unset in the environment, or set
TextKeyValues == {"", "sk-live"}

TextInit ==
    /\ text_serpapi_key \in KeyValues
    /\ jina_key \in TextKeyValues
    /\ openrouter_key \in TextKeyValues
    /\ nest_asyncio_applied \in BOOLEAN
    /\ TextIdle

\* async with aiohttp.ClientSession() as session: leaving the block closes it
async_with_exit_leaks(s) == s
async_with_exit(s) == "closed"

\* async_text_search up to its first await: the credential checks, the session,
\* and the search request
Enter(entry, top_k, top_k_type, loop_running) ==
    LET error_msg == CredentialError(text_serpapi_key, jina_key, openrouter_key) IN
    /\ text_req' = [entry |-> entry, top_k |-> top_k, top_k_type |-> top_k_type,
                    loop_running |-> loop_running, resp |-> NoSearchResponse]
    /\ IF error_msg # None
       THEN /\ text_pc' = "returned"
            /\ text_ret' = [str |-> Report(TEXT_ERROR, <<>>),
                            stat |-> [TEXT_INITIAL_STAT EXCEPT !.error = error_msg]]
            /\ UNCHANGED <<session, text_net>>
       ELSE /\ text_pc' = "search"
            /\ session' = "open"
            /\ text_net' = [text_net EXCEPT !.search = @ + 1]
            /\ UNCHANGED text_ret
    /\ UNCHANGED <<search_urls, units, finished>>

\* top_k is not type-checked: the caller may pass the number as an int or, as it
\* comes out of a parsed tool call, as a str ("2"); top_k holds the number,
\* top_k_type the Python type of the argument
TopKTypes == {"int", "str"}

\* a coroutine of the caller awaits async_text_search(text_query, top_k)
AsyncTextSearch ==
    /\ text_pc = "idle" /\ image_pc = "idle"
    /\ \E top_k \in TopKs, top_k_type \in TopKTypes :
         Enter("async_text_search", top_k, top_k_type, TRUE)
    /\ UNCHANGED <<text_serpapi_key, jina_key, openrouter_key, nest_asyncio_applied>>
    /\ UNCHANGED image_vars
    /\ UNCHANGED loader_vars

\* call_text_search(text_query): asyncio.run, which refuses to start inside a
\* running event loop unless nest_asyncio has patched it; both fallbacks of the
\* except branch end in the same RuntimeError
CallTextSearch ==
    /\ text_pc = "idle" /\ image_pc = "idle"
    /\ \E loop_running \in BOOLEAN :
         IF loop_running /\ ~nest_asyncio_applied
         THEN /\ text_pc' = "raised"
              /\ text_req' = [entry |-> "call_text_search", top_k |-> DEFAULT_TOP_K,
                              top_k_type |-> "int", loop_running |-> loop_running,
                              resp |-> NoSearchResponse]
              /\ UNCHANGED <<session, search_urls, units, finished, text_net, text_ret>>
         ELSE Enter("call_text_search", DEFAULT_TOP_K, "int", loop_running)
    /\ UNCHANGED <<text_serpapi_key, jina_key, openrouter_key, nest_asyncio_applied>>
    /\ UNCHANGED image_vars
    /\ UNCHANGED loader_vars

\* a task handed to gather: created at line 229, not started yet
NewTask(url) == [url |-> url, pc |-> "created", result |-> <<>>]

\* the search provider answers: lines 216-230.  With links, the coroutine builds
\* one task per link and yields at await asyncio.gather with none of them started.
SearchDone ==
    /\ text_pc = "search"
    /\ \E resp \in SearchResponses :
         LET stage == search_stage(perform_search(resp), text_req.top_k) IN
         /\ text_req.top_k_type = "int" \/ stage.returns
         /\ text_req' = [text_req EXCEPT !.resp = resp]
         /\ IF stage.returns
            THEN /\ text_pc' = "returned"
                 /\ text_ret' = stage.ret
                 /\ session' = async_with_exit(session)
                 /\ UNCHANGED <<search_urls, units>>
            ELSE /\ text_pc' = "gather"
                 /\ search_urls' = stage.urls
                 /\ units' = [i \in 1..Len(stage.urls) |-> NewTask(stage.urls[i])]
                 /\ UNCHANGED <<session, text_ret>>
    /\ UNCHANGED <<text_serpapi_key, jina_key, openrouter_key, nest_asyncio_applied,
                   finished, text_net>>
    /\ UNCHANGED image_vars
    /\ UNCHANGED loader_vars

\* the search provider answers with links and top_k is no int: search_urls[:top_k]
\* (line 225) raises TypeError, the async with block is left, and the except
\* branch of lines 250-254 returns the sentinel with the error set
ERR_TEXT_UNEXPECTED == "Unexpected error during text search: "

UnexpectedError ==
    /\ text_pc = "search"
    /\ text_req.top_k_type # "int"
    /\ \E resp \in SearchResponses :
         /\ perform_search(resp) # <<>>
         /\ text_req' = [text_req EXCEPT !.resp = resp]
         /\ search_urls' = perform_search(resp)
    /\ text_pc' = "returned"
    /\ text_ret' = [str |-> Report(TEXT_ERROR, <<>>),
                    stat |-> [TEXT_INITIAL_STAT EXCEPT !.error = ERR_TEXT_UNEXPECTED]]
    /\ session' = async_with_exit(session)
    /\ UNCHANGED <<text_serpapi_key, jina_key, openrouter_key, nest_asyncio_applied,
                   units, finished, text_net>>
    /\ UNCHANGED image_vars
    /\ UNCHANGED loader_vars

\* the loop runs the first step of task i: process_url_async up to the request
\* to Jina (lines 148-150).  gather schedules the tasks in the order of the
\* links, one callback each.
TaskStart(i) ==
    /\ text_pc = "gather"
    /\ units[i].pc = "created"
    /\ \A j \in 1..(i - 1) : units[j].pc # "created"
    /\ units' = [units EXCEPT ![i].pc = "fetch"]
    /\ text_net' = [text_net EXCEPT !.extract = @ + 1]
    /\ UNCHANGED <<text_serpapi_key, jina_key, openrouter_key, nest_asyncio_applied,
                   text_pc, text_req, session, search_urls, finished, text_ret>>
    /\ UNCHANGED image_vars
    /\ UNCHANGED loader_vars

\* the fetch of task i ends: process_url_async lines 150-156.  A page arrives
\* from the network, so only after the loop has run the first step of every
\* task; a fetch that fails may fail before it is sent, inside the first step
\* of its task and before the next task starts.
FetchDone(i) ==
    /\ text_pc = "gather"
    /\ units[i].pc = "fetch"
    /\ LET page_text == fetch_webpage_text(units[i].url) IN
       IF ~Truthy(page_text)
       THEN /\ units' = [units EXCEPT ![i].pc = "done", ![i].result = <<>>]
            /\ finished' = Append(finished, i)
            /\ UNCHANGED text_net
       ELSE /\ \A j \in 1..Len(units) : units[j].pc # "created"
            /\ units' = [units EXCEPT ![i].pc = "summarize"]
            /\ text_net' = [text_net EXCEPT !.summarize = @ + 1]
            /\ UNCHANGED finished
    /\ UNCHANGED <<text_serpapi_key, jina_key, openrouter_key, nest_asyncio_applied,
                   text_pc, text_req, session, search_urls, text_ret>>
    /\ UNCHANGED image_vars
    /\ UNCHANGED loader_vars

\* OpenRouter answers task i: process_url_async lines 156-161
SummaryDone(i) ==
    /\ text_pc = "gather"
    /\ units[i].pc = "summarize"
    /\ LET summary == generate_summary(fetch_webpage_text(units[i].url)) IN
       units' = [units EXCEPT ![i].pc = "done",
                              ![i].result = IF ~Truthy(summary) THEN <<>>
                                            ELSE << <<summary, units[i].url>> >>]
    /\ finished' = Append(finished, i)
    /\ UNCHANGED <<text_serpapi_key, jina_key, openrouter_key, nest_asyncio_applied,
                   text_pc, text_req, session, search_urls, text_net, text_ret>>
    /\ UNCHANGED image_vars
    /\ UNCHANGED loader_vars

\* gather returns once every task is done; lines 230-256
Collate ==
    /\ text_pc = "gather"
    /\ gather_resolved(units)
    /\ text_ret' = collate(gather(units, finished))
    /\ text_pc' = "returned"
    /\ session' = async_with_exit(session)
    /\ UNCHANGED <<text_serpapi_key, jina_key, openrouter_key, nest_asyncio_applied,
                   text_req, search_urls, units, finished, text_net>>
    /\ UNCHANGED image_vars
    /\ UNCHANGED loader_vars

\* the caller takes the result (or the exception) and is free to call again
TextReturn ==
    /\ text_pc \in {"returned", "raised"}
    /\ text_pc' = "idle"
    /\ text_req' = NoTextRequest
    /\ session' = "none"
    /\ search_urls' = <<>>
    /\ units' = <<>>
    /\ finished' = <<>>
    /\ text_net' = NoCalls
    /\ text_ret' = NoTextReturn
    /\ UNCHANGED <<text_serpapi_key, jina_key, openrouter_key, nest_asyncio_applied>>
    /\ UNCHANGED image_vars
    /\ UNCHANGED loader_vars

(***************************************************************************)
(* The process.  One caller uses both tools, one call at a time.  Both     *)
(* modules read SERPAPI_API_KEY from the same environment when they are    *)
(* imported (image_search.py line 13, text_search.py line 20), so the two  *)
(* copies of the key agree; nothing else is shared between the modules.    *)
(***************************************************************************)
(***************************************************************************)
(* Threads inside _load_image_search_cache (lines 54-70).  The function    *)
(* takes no lock: the test of line 57, the read of the file and the        *)
(* assignment to the module global are separate steps of a thread, and a   *)
(* thread switch can fall between any two of them.                         *)
(***************************************************************************)
Threads == 1..MaxThreads

LoaderIdle ==
    /\ loader_pc = [t \in Threads |-> "idle"]
    /\ loader_split = [t \in Threads |-> "test"]
    /\ loader_value = [t \in Threads |-> NotLoaded]
    /\ file_loads = [s \in Splits |-> 0]
    /\ cache_sets = [s \in Splits |-> 0]

\* line 57: if _image_search_cache[split] is None
LoaderEnter(t, split) ==
    /\ loader_pc[t] = "idle"
    /\ loader_split' = [loader_split EXCEPT ![t] = split]
    /\ loader_pc' = [loader_pc EXCEPT ![t] = IF image_search_cache[split] = NotLoaded
                                            THEN "line 59" ELSE "line 70"]
    /\ UNCHANGED <<loader_value, file_loads, cache_sets>>
    /\ UNCHANGED <<image_vars, text_vars>>

\* lines 59-62 and 67-69: the file is looked up and, if present, read
LoaderOpen(t) ==
    /\ loader_pc[t] = "line 59"
    /\ LET split == loader_split[t] IN
       IF cache_files[split] = "missing"
       THEN /\ image_search_cache' = [image_search_cache EXCEPT ![split] = EmptyRef]
            /\ cache_sets' = [cache_sets EXCEPT ![split] = @ + 1]
            /\ loader_pc' = [loader_pc EXCEPT ![t] = "line 70"]
            /\ UNCHANGED <<loader_value, file_loads>>
       ELSE /\ file_loads' = [file_loads EXCEPT ![split] = @ + 1]
            /\ loader_value' = [loader_value EXCEPT ![t] =
                                   IF cache_files[split] = "ok" THEN PickledRef ELSE EmptyRef]
            /\ loader_pc' = [loader_pc EXCEPT ![t] = "store"]
            /\ UNCHANGED <<image_search_cache, cache_sets>>
    /\ UNCHANGED loader_split
    /\ UNCHANGED <<image_key, cache_files, image_pc, image_req, image_ret, image_trace>>
    /\ UNCHANGED text_vars

\* line 62 or line 66: the assignment to _image_search_cache[split]
LoaderStore(t) ==
    /\ loader_pc[t] = "store"
    /\ image_search_cache' = [image_search_cache EXCEPT ![loader_split[t]] = loader_value[t]]
    /\ cache_sets' = [cache_sets EXCEPT ![loader_split[t]] = @ + 1]
    /\ loader_pc' = [loader_pc EXCEPT ![t] = "line 70"]
    /\ UNCHANGED <<loader_split, loader_value, file_loads>>
    /\ UNCHANGED <<image_key, cache_files, image_pc, image_req, image_ret, image_trace>>
    /\ UNCHANGED text_vars

\* line 70: return _image_search_cache[split]
LoaderExit(t) ==
    /\ loader_pc[t] = "line 70"
    /\ loader_value' = [loader_value EXCEPT ![t] = image_search_cache[loader_split[t]]]
    /\ loader_pc' = [loader_pc EXCEPT ![t] = "done"]
    /\ UNCHANGED <<loader_split, file_loads, cache_sets>>
    /\ UNCHANGED <<image_vars, text_vars>>

vars == <<image_vars, text_vars, loader_vars>>

Init ==
    /\ ImageInit
    /\ TextInit
    /\ text_serpapi_key = image_key
    /\ LoaderIdle

Next ==
    \/ CallImageSearch
    \/ ImageReturn
    \/ AsyncTextSearch
    \/ CallTextSearch
    \/ SearchDone
    \/ UnexpectedError
    \/ \E i \in 1..Len(units) : TaskStart(i)
    \/ \E i \in 1..Len(units) : FetchDone(i)
    \/ \E i \in 1..Len(units) : SummaryDone(i)
    \/ Collate
    \/ TextReturn

Spec == Init /\ [][Next]_vars

\* requests on threads of one process, each inside the cache loader
RaceInit == Init

RaceNext ==
    \/ \E t \in Threads, split \in Splits : LoaderEnter(t, split)
    \/ \E t \in Threads : LoaderOpen(t)
    \/ \E t \in Threads : LoaderStore(t)
    \/ \E t \in Threads : LoaderExit(t)

SpecRace == RaceInit /\ [][RaceNext]_vars

(***************************************************************************)
(* Vocabulary of the properties.                                           *)
(***************************************************************************)
ImageReturned == image_pc = "returned"

\* the partition the request addresses (line 112)
SplitOf(data_source) == IF data_source \in TrainSources THEN "train" ELSE "test"

\* the request went to the cache: no HTTP(S) URL, and a data_id
CacheRequest == ImageReturned /\ ~IsHttpUrl(image_req.image_url) /\ image_req.data_id # NoId

\* the mapping of the addressed partition, as memoized by the call
AddressedMapping == Deref(image_search_cache[SplitOf(image_req.data_source)])

CacheHit == CacheRequest /\ image_req.data_id \in DOMAIN AddressedMapping
CacheMiss == CacheRequest /\ image_req.data_id \notin DOMAIN AddressedMapping

HitEntry == AddressedMapping[image_req.data_id]

\* the live provider answered with at least one match
LiveMatches == ImageReturned /\ image_req.resp.outcome = "Success"
               /\ image_req.resp.visual_matches # <<>>

ImageSentinel == Report(IMAGE_ERROR, <<>>)
TextSentinel == Report(TEXT_ERROR, <<>>)

Ranks(lines) == [i \in 1..Len(lines) |-> lines[i].idx]
OneToN(n) == [i \in 1..n |-> i]

(***************************************************************************)
(* C1.  An image request that reaches a cache entry or a live answer with  *)
(* at least one entry to process ends with success = (image_count > 0),    *)
(* image_count being the number of images returned; with zero images the   *)
(* report is exactly the generic sentinel string.                          *)
(***************************************************************************)
C1_SuccessIffImages ==
    (\/ CacheHit /\ Len(HitEntry.tool_returned_images_urls) >= 1
     \/ LiveMatches)
    => /\ image_ret.stat.num_images = Len(image_ret.images)
       /\ image_ret.stat.success = (Len(image_ret.images) > 0)
       /\ Len(image_ret.images) = 0 => image_ret.str = ImageSentinel

\* a cache entry with a stored title and a reference that yields no image:
\* the title line was formatted, and the report is the sentinel all the same
C1_Witness ==
    /\ CacheHit
    /\ Len(HitEntry.tool_returned_web_title_list) >= 1
    /\ Len(HitEntry.tool_returned_images_urls) >= 1
    /\ image_ret.images = <<>>
    /\ image_ret.stat.success = FALSE
    /\ image_ret.str = ImageSentinel

(***************************************************************************)
(* C2.  A cache request whose data_id is absent from the addressed         *)
(* partition ends there: success is false, the status carries an error,    *)
(* and neither the API-key check nor the live provider is reached.         *)
(***************************************************************************)
C2_CacheMissTerminates ==
    CacheMiss
    => /\ image_ret.stat.success = FALSE
       /\ "error" \in DOMAIN image_ret.stat /\ Truthy(image_ret.stat.error)
       /\ "check_api_key" \notin Range(image_trace)
       /\ "requests.get:serpapi" \notin Range(image_trace)

(***************************************************************************)
(* C3.  Without an HTTP(S) URL and without a data_id the call ends at once:*)
(* success false, a non-empty error, no images, the generic sentinel       *)
(* report, no cache partition loaded and no call to the live provider.     *)
(***************************************************************************)
C3_NoUrlNoIdFails ==
    (ImageReturned /\ ~IsHttpUrl(image_req.image_url) /\ image_req.data_id = NoId)
    => /\ image_ret.stat.success = FALSE
       /\ Truthy(image_ret.stat.error)
       /\ image_ret.images = <<>>
       /\ image_ret.stat.num_images = 0
       /\ image_ret.str = ImageSentinel
       /\ image_trace = <<>>

\* such a call, made although key and cache files were there to be used
C3_Witness ==
    /\ ImageReturned
    /\ image_req.image_url = "" /\ image_req.data_id = NoId
    /\ image_key = "sk-live"
    /\ cache_files = [s \in Splits |-> "ok"]
    /\ image_search_cache = [s \in Splits |-> NotLoaded]
    /\ image_ret.stat.error = ERR_NO_URL

(***************************************************************************)
(* Vocabulary of the text properties.                                      *)
(***************************************************************************)
TextReturned == text_pc = "returned"

\* the request got past the credential checks and the search stage answered
Searched == text_req.resp # NoSearchResponse

\* the links the provider returned, in its order, cut to top_k
ProviderLinks == Slice(perform_search(text_req.resp), text_req.top_k)

\* the link's own fetch and summary both produced something
ProducesSummary(url) == Truthy(generate_summary(fetch_webpage_text(url)))

ReportUrls(lines) == [i \in 1..Len(lines) |-> lines[i].url]

(***************************************************************************)
(* C4.  The report of the text pipeline lists exactly the links that       *)
(* produced a non-empty summary, in the order the provider returned them,  *)
(* whatever the order in which the per-link tasks started, failed and      *)
(* completed.  Stated for every request that reached the collate stage.    *)
(***************************************************************************)
Collated == TextReturned /\ units # <<>>

C4_ProviderOrderKept ==
    /\ Collated
       => /\ ProviderLinks = [i \in 1..Len(units) |-> units[i].url]
          /\ ReportUrls(text_ret.str.lines) = SelectSeq(ProviderLinks, ProducesSummary)
    /\ (TextReturned /\ Searched /\ ProviderLinks # <<>> /\ text_req.top_k_type = "int")
       => Collated

\* three links, the middle one dropped, and the third task done before the first
C4_Witness ==
    /\ TextReturned
    /\ search_urls = <<"https://a.example/", "https://b.example/", "https://c.example/">>
    /\ finished = <<3, 2, 1>>
    /\ ReportUrls(text_ret.str.lines) = <<"https://a.example/", "https://c.example/">>

(***************************************************************************)
(* C5.  When the search stage yields no link, the request ends with        *)
(* success false, result count 0 and the "No relevant results found"       *)
(* report, and no extraction or summarization call is made.                *)
(***************************************************************************)
C5_EmptySearchNoResults ==
    (TextReturned /\ Searched /\ perform_search(text_req.resp) = <<>>)
    => /\ text_ret.str = Report(TEXT_NO_RESULTS, <<>>)
       /\ text_ret.str # TextSentinel
       /\ text_ret.stat.success = FALSE
       /\ text_ret.stat.num_results = 0
       /\ text_net.extract = 0 /\ text_net.summarize = 0

\* the provider answered 200 with an empty organic_results list
C5_Witness ==
    /\ TextReturned
    /\ text_req.resp = [outcome |-> "ok", organic_results |-> <<>>]
    /\ text_ret.str.head = TEXT_NO_RESULTS
    /\ text_net.search = 1

(***************************************************************************)
(* C6.  If one of the three credentials is missing, the request ends       *)
(* before any network call and before the session is acquired, with        *)
(* success false, the generic sentinel report, and an error that names a   *)
(* credential that is missing.                                             *)
(***************************************************************************)
Unset(key) == key = ""

C6_CredentialGate ==
    (text_req.entry # "none" /\ text_pc # "raised"
     /\ (Unset(text_serpapi_key) \/ Unset(jina_key) \/ Unset(openrouter_key)))
    => /\ text_pc = "returned"
       /\ session = "none"
       /\ text_net = NoCalls
       /\ text_ret.str = TextSentinel
       /\ text_ret.stat.success = FALSE
       /\ \/ text_ret.stat.error = ERR_SERPAPI_KEY /\ text_serpapi_key \in {"", "REDACTED"}
          \/ text_ret.stat.error = ERR_JINA_KEY /\ jina_key \in {"", "REDACTED"}
          \/ text_ret.stat.error = ERR_OPENROUTER_KEY /\ openrouter_key \in {"", "REDACTED"}

\* only the summarization credential is missing
C6_Witness ==
    /\ TextReturned
    /\ text_serpapi_key = "sk-live" /\ jina_key = "sk-live" /\ openrouter_key = ""
    /\ text_ret.stat.error = ERR_OPENROUTER_KEY
    /\ text_net = NoCalls
    /\ session = "none"

(***************************************************************************)
(* C7.  With top_k >= 1 no request returns more than top_k results: the    *)
(* result count, the number of images and the number of report entries     *)
(* stay within top_k, for the cache, the live provider and the text        *)
(* pipeline, however long the stored or returned lists are.                *)
(***************************************************************************)
C7_AtMostTopK ==
    /\ (ImageReturned /\ image_req.top_k >= 1)
       => /\ image_ret.stat.num_results <= image_req.top_k
          /\ image_ret.stat.num_images <= image_req.top_k
          /\ Len(image_ret.images) <= image_req.top_k
          /\ Len(image_ret.str.lines) <= image_req.top_k
    /\ (TextReturned /\ text_req.top_k >= 1)
       => /\ text_ret.stat.num_results <= text_req.top_k
          /\ Len(text_ret.str.lines) <= text_req.top_k
    /\ Len(units) <= text_req.top_k

\* a cache entry with more references than top_k, all of them yielding images
C7_Witness ==
    /\ CacheHit
    /\ image_req.top_k = 1
    /\ Len(HitEntry.tool_returned_images_urls) = 2
    /\ image_ret.stat.success
    /\ image_ret.stat.num_results = 1
    /\ Len(image_ret.images) = 1

(***************************************************************************)
(* C8.  In every successful request the ranks of the report's entries are  *)
(* exactly 1..n, n being the number of entries.                            *)
(***************************************************************************)
C8_RanksContiguous ==
    /\ (ImageReturned /\ image_ret.stat.success)
       => Ranks(image_ret.str.lines) = OneToN(Len(image_ret.str.lines))
    /\ (TextReturned /\ text_ret.stat.success)
       => Ranks(text_ret.str.lines) = OneToN(Len(text_ret.str.lines))

(***************************************************************************)
(* C9.  Every call returns one report and one status record, and no        *)
(* exception reaches the caller.                                           *)
(***************************************************************************)
C9_NeverRaises ==
    /\ text_pc # "raised"
    /\ TextReturned => DOMAIN text_ret = {"str", "stat"}
    /\ ImageReturned => DOMAIN image_ret = {"str", "images", "stat"}

(***************************************************************************)
(* C10.  For a cache entry with fewer titles than the first top_k image    *)
(* references, the result has min(top_k, number of references) entries,    *)
(* entry i carries stored title i when there is one, and every further     *)
(* entry N carries the title "Result N", N being its rank.                 *)
(***************************************************************************)
C10_PadsWithRank ==
    LET titles == HitEntry.tool_returned_web_title_list
        n == Min(image_req.top_k, Len(HitEntry.tool_returned_images_urls))
    IN  (CacheHit /\ image_ret.stat.success /\ Len(titles) < n)
        => /\ image_ret.stat.num_results = n
           /\ Len(image_ret.str.lines) = n
           /\ \A i \in 1..n :
                image_ret.str.lines[i].title =
                    IF i <= Len(titles) THEN titles[i] ELSE ResultTitle(i)

(***************************************************************************)
(* C11.  The "No relevant results found" report is produced only when the  *)
(* search provider succeeded and returned nothing; a failure of the search *)
(* provider yields the generic sentinel.  Both end with success false.     *)
(* Stated for the search stage of the text pipeline and for the live query *)
(* of the image resolver.                                                  *)
(***************************************************************************)
TextSearchFailed == text_req.resp.outcome \in {"exception", "status != 200", "no organic_results"}
ImageSearchFailed == image_req.resp \in FailedResponses

C11_FailureIsNotEmpty ==
    /\ (TextReturned /\ Searched)
       => /\ TextSearchFailed => text_ret.str = TextSentinel
          /\ text_ret.str.head = TEXT_NO_RESULTS => text_req.resp.outcome = "ok"
          /\ (TextSearchFailed \/ perform_search(text_req.resp) = <<>>)
                => text_ret.stat.success = FALSE
    /\ ImageReturned
       => /\ ImageSearchFailed => image_ret.str = ImageSentinel
          /\ image_ret.str.head = IMAGE_NO_RESULTS
                => (image_req.resp.outcome = "Success" /\ image_req.resp.visual_matches = <<>>)
          /\ ImageSearchFailed => image_ret.stat.success = FALSE

(***************************************************************************)
(* C12.  Determinism: the report and the status of a request are a         *)
(* function of the request, the credentials, the cache files and the       *)
(* provider's answers.  An image request answered with the cache already   *)
(* memoized returns what the same request returns on first access, and a   *)
(* text request returns the collation of its links in provider order       *)
(* whatever the order in which the extraction units started and finished   *)
(* (or, with a top_k that is no int, the sentinel of the except branch).    *)
(***************************************************************************)
FirstAccess == [s \in Splits |-> NotLoaded]

OnFirstAccess ==
    call_image_search(image_req.image_url, image_req.top_k, image_req.data_id,
                      image_req.data_source, image_key, FirstAccess, cache_files,
                      image_req.resp)

UnitOutcome(url) ==
    LET summary == generate_summary(fetch_webpage_text(url))
    IN  IF Truthy(summary) THEN << <<summary, url>> >> ELSE <<>>

C12_Deterministic ==
    /\ ImageReturned
       => LET first == OnFirstAccess
          IN  image_ret = [str |-> first.str, images |-> first.images, stat |-> first.stat]
    /\ (TextReturned /\ Searched /\ ProviderLinks # <<>>)
       => text_ret = IF text_req.top_k_type = "int"
                     THEN collate([i \in 1..Len(ProviderLinks) |->
                                     UnitOutcome(ProviderLinks[i])])
                     ELSE [str |-> TextSentinel,
                           stat |-> [TEXT_INITIAL_STAT EXCEPT !.error = ERR_TEXT_UNEXPECTED]]

C12_Witness ==
    /\ ImageReturned /\ CacheHit
    /\ image_ret.stat.success
    /\ \A s \in Splits : ("pickle.load:" \o s) \notin Range(image_trace)

(***************************************************************************)
(* C13.  Join barrier of the extract stage: a report exists only once      *)
(* every dispatched unit has resolved.  While a unit is pending the call   *)
(* has produced no result, and the first unit to complete does not end the *)
(* stage.                                                                  *)
(***************************************************************************)
Pending == {i \in 1..Len(units) : units[i].pc # "done"}

C13_JoinBarrier ==
    /\ (text_ret # NoTextReturn /\ units # <<>>)
       => (Pending = {} /\ Len(finished) = Len(units))
    /\ (text_pc = "gather" /\ Pending # {})
       => (text_ret = NoTextReturn /\ session = "open")
    /\ (TextReturned /\ units # <<>>) => Pending = {}

C13_Witness ==
    /\ TextReturned /\ Len(units) = MaxLinks
    /\ Pending = {}
    /\ units[finished[1]].result # <<>>
    /\ text_ret.stat.success

(***************************************************************************)
(* C14.  Failure isolation: a link whose fetch or summary fails resolves   *)
(* to a drop for that link alone.  Every other unit still runs to          *)
(* completion and the links retained by the report are exactly those whose *)
(* own fetch and summary both succeeded.                                   *)
(***************************************************************************)
Succeeding == {i \in 1..Len(units) : ProducesSummary(units[i].url)}

C14_FailureIsolated ==
    (TextReturned /\ units # <<>>)
    => /\ \A i \in 1..Len(units) :
            /\ units[i].pc = "done"
            /\ units[i].result # <<>> <=> i \in Succeeding
       /\ Range(ReportUrls(text_ret.str.lines)) = {units[i].url : i \in Succeeding}
       /\ Len(text_ret.str.lines) = Cardinality(Succeeding)

C14_Witness ==
    /\ TextReturned /\ Len(units) >= 2
    /\ 1 \notin Succeeding /\ 2 \in Succeeding
    /\ finished[1] = 1
    /\ units[2].url \in Range(ReportUrls(text_ret.str.lines))

(***************************************************************************)
(* C15.  Collate outcome: when no link produced a non-empty summary the    *)
(* call ends with success false, a result count of 0 and the generic       *)
(* sentinel; otherwise success is true and the result count is the number  *)
(* of retained links, which is the number of numbered lines and at least 1.*)
(***************************************************************************)
C15_CollateOutcome ==
    (TextReturned /\ units # <<>>)
    => LET n == Cardinality(Succeeding) IN
       IF n = 0
       THEN /\ text_ret.stat.success = FALSE
            /\ text_ret.stat.num_results = 0
            /\ text_ret.str = TextSentinel
       ELSE /\ text_ret.stat.success = TRUE
            /\ text_ret.stat.num_results = n
            /\ text_ret.str.head = TEXT_PREAMBLE
            /\ Len(text_ret.str.lines) = n
            /\ n >= 1

C15_Witness ==
    /\ TextReturned /\ Len(units) = MaxLinks
    /\ text_ret.stat.success
    /\ text_ret.stat.num_results = 1
    /\ Len(text_ret.str.lines) = 1

(***************************************************************************)
(* C16.  Load-once cache under concurrent image requests: each partition   *)
(* file is loaded at most once per process, the memoized mapping is never  *)
(* assigned again after it was first set, every request on a partition     *)
(* observes the same mapping, and a missing or unreadable file memoizes    *)
(* the empty mapping.                                                      *)
(***************************************************************************)
C16_LoadOnce ==
    /\ \A s \in Splits : file_loads[s] <= 1 /\ cache_sets[s] <= 1
    /\ \A t, u \in Threads :
          (loader_pc[t] = "done" /\ loader_pc[u] = "done" /\ loader_split[t] = loader_split[u])
          => loader_value[t] = loader_value[u]
    /\ \A s \in Splits :
          cache_files[s] # "ok" => image_search_cache[s] \in {NotLoaded, EmptyRef}

(***************************************************************************)
(* C17.  A failure of the live provider (network error, non-200 status,    *)
(* undecodable body, or a metadata status other than Success) ends with    *)
(* success false, no images, the generic sentinel and a non-empty error    *)
(* that names the provider's failure; no image fetch is attempted.         *)
(***************************************************************************)
LiveFailure == ImageReturned /\ image_req.resp \in FailedResponses

ProviderError(outcome) ==
    CASE outcome = "RequestException" -> ERR_NETWORK
      [] outcome = "status_code != 200" -> ERR_STATUS_CODE
      [] outcome = "status != Success" -> ERR_SEARCH_FAILED
      [] OTHER -> ERR_UNEXPECTED

C17_LiveFailure ==
    LiveFailure
    => /\ image_ret.stat.success = FALSE
       /\ image_ret.stat.num_images = 0
       /\ image_ret.images = <<>>
       /\ image_ret.str = ImageSentinel
       /\ Truthy(image_ret.stat.error)
       /\ image_ret.stat.error = ProviderError(image_req.resp.outcome)
       /\ "requests.get:image" \notin Range(image_trace)

C17_Witness ==
    /\ LiveFailure
    /\ image_req.resp.outcome = "status != Success"
    /\ image_ret.stat.error = ERR_SEARCH_FAILED
    /\ "requests.get:serpapi" \in Range(image_trace)

(***************************************************************************)
(* C18.  When the live provider succeeds with zero matches the request     *)
(* ends with success false, a result count of 0, no images and no error,   *)
(* the report is the "No relevant results found" message and not the       *)
(* generic sentinel, and the image fetcher is not invoked.                 *)
(***************************************************************************)
LiveEmpty == /\ ImageReturned
             /\ image_req.resp.outcome = "Success"
             /\ image_req.resp.visual_matches = <<>>

C18_LiveEmpty ==
    LiveEmpty
    => /\ image_ret.stat.success = FALSE
       /\ image_ret.stat.num_results = 0
       /\ image_ret.stat.num_images = 0
       /\ image_ret.images = <<>>
       /\ image_ret.stat.error = None
       /\ image_ret.str = Report(IMAGE_NO_RESULTS, <<>>)
       /\ image_ret.str # ImageSentinel
       /\ "requests.get:image" \notin Range(image_trace)

C18_Witness ==
    /\ LiveEmpty
    /\ "requests.get:serpapi" \in Range(image_trace)
    /\ image_ret.str.head = IMAGE_NO_RESULTS

(***************************************************************************)
(* C19.  Origin tagging: the status of a request resolved from the cache   *)
(* carries the origin "cache", the status of a request resolved by the     *)
(* live provider carries the origin "live", and no status of a resolved    *)
(* request lacks an origin.                                                *)
(***************************************************************************)
HasOrigin(stat, origin) == "source" \in DOMAIN stat /\ stat.source = origin

C19_OriginTagged ==
    /\ CacheHit => HasOrigin(image_ret.stat, "cache")
    /\ LiveMatches => HasOrigin(image_ret.stat, "live")

(***************************************************************************)
(* C20.  A failure on one entry degrades that entry to title and link and  *)
(* never drops it: a successful report has one entry for each of the first *)
(* min(top_k, number of matches) results, on the cache path and on the     *)
(* live path, so the number of entries equals the result count.            *)
(***************************************************************************)
C20_EntryPerResult ==
    (ImageReturned /\ image_ret.stat.success)
    => /\ Len(image_ret.str.lines) = image_ret.stat.num_results
       /\ LiveMatches
             => image_ret.stat.num_results
                  = Min(image_req.top_k, Len(image_req.resp.visual_matches))
       /\ CacheHit
             => image_ret.stat.num_results
                  = Min(image_req.top_k, Len(HitEntry.tool_returned_images_urls))

(***************************************************************************)
(* C21.  Scoped session of the text pipeline: the session is acquired once *)
(* per request and only after the credential checks passed, it is open     *)
(* while the search call and the per-link units run, and it is released on *)
(* every exit (empty search result, no valid summaries, success,           *)
(* unexpected exception).  When async_text_search returns the session is   *)
(* closed and no unit is still in flight.                                  *)
(***************************************************************************)
CredentialsPass == CredentialError(text_serpapi_key, jina_key, openrouter_key) = None

SessionScoped ==
    /\ text_pc \in {"search", "gather"} => session = "open"
    /\ session # "none" => (CredentialsPass /\ text_net.search = 1)
    /\ (text_net.extract > 0 \/ text_net.summarize > 0) => session # "none"
    /\ TextReturned
       => /\ session = IF CredentialsPass THEN "closed" ELSE "none"
          /\ Pending = {}
          /\ session # "open"
    /\ \A i \in 1..Len(units) : units[i].pc \in {"fetch", "summarize"} => session = "open"

SessionAcquiredOnce ==
    /\ (session # "open" /\ session' = "open") => (session = "none" /\ text_pc = "idle")
    /\ session = "closed" => session' \in {"closed", "none"}
    /\ (session = "open" /\ session' # "open") => session' = "closed"

C21_ScopedSession == []SessionScoped /\ [][SessionAcquiredOnce]_vars

\* the exit through the except branch: the slice of line 225 raised
C21_Witness ==
    /\ TextReturned /\ session = "closed"
    /\ text_ret.stat.error = ERR_TEXT_UNEXPECTED
    /\ text_net.search = 1 /\ text_net.extract = 0
    /\ units = <<>>

(***************************************************************************)
(* C22.  Routing by URL validity: a request whose image_url starts with    *)
(* http:// or https:// goes to the live query and neither loads nor reads  *)
(* a cache partition, also when data_id and data_source are supplied; the  *)
(* memoized cache is left as it was.                                       *)
(***************************************************************************)
UrlRequest == ImageReturned /\ IsHttpUrl(image_req.image_url)

CacheTouches == {"load_cache:" \o s : s \in Splits} \cup {"pickle.load:" \o s : s \in Splits}

UrlGoesLive ==
    UrlRequest
    => /\ Range(image_trace) \cap CacheTouches = {}
       /\ image_trace # <<>> /\ image_trace[1] = "check_api_key"

UrlLeavesMemo ==
    (image_pc = "idle" /\ image_pc' = "returned" /\ IsHttpUrl(image_req'.image_url))
    => image_search_cache' = image_search_cache

C22_UrlRoutesLive == []UrlGoesLive /\ [][UrlLeavesMemo]_vars

C22_Witness ==
    /\ UrlRequest
    /\ image_req.data_id = SampleId /\ image_req.data_source = "FVQA_Train"
    /\ cache_files["train"] = "ok"
    /\ image_search_cache["train"] = NotLoaded
    /\ "requests.get:serpapi" \in Range(image_trace)

(***************************************************************************)
(* C23.  A request resolved from a cache hit returns without checking the  *)
(* provider API key and without a call to the live provider: its outcome   *)
(* is the same whether or not SERPAPI_API_KEY is configured.               *)
(***************************************************************************)
WithKey(key) ==
    call_image_search(image_req.image_url, image_req.top_k, image_req.data_id,
                      image_req.data_source, key, FirstAccess, cache_files,
                      image_req.resp)

C23_HitIgnoresKey ==
    CacheHit
    => /\ "check_api_key" \notin Range(image_trace)
       /\ "requests.get:serpapi" \notin Range(image_trace)
       /\ image_req.resp = NoResponse
       /\ \A key \in KeyValues :
             LET r == WithKey(key)
             IN  image_ret = [str |-> r.str, images |-> r.images, stat |-> r.stat]

C23_Witness ==
    /\ CacheHit
    /\ KeyMissing(image_key)
    /\ image_ret.stat.success
    /\ Len(image_ret.images) >= 1

(***************************************************************************)
(* C24.  Status and report agree in every terminal state of both tools:    *)
(* the image status's num_images is the number of images returned and is   *)
(* at most num_results; success true means the report starts with the      *)
(* fixed preamble and has at least one entry; success false means the      *)
(* report is exactly the generic sentinel or the no-relevant-results       *)
(* message and no images are returned.                                     *)
(***************************************************************************)
ImageConsistent ==
    /\ image_ret.stat.num_images = Len(image_ret.images)
    /\ image_ret.stat.num_images <= image_ret.stat.num_results
    /\ image_ret.stat.success
       => /\ image_ret.str.head = IMAGE_PREAMBLE
          /\ Len(image_ret.str.lines) >= 1
    /\ ~image_ret.stat.success
       => /\ image_ret.str \in {ImageSentinel, Report(IMAGE_NO_RESULTS, <<>>)}
          /\ image_ret.images = <<>>

TextConsistent ==
    /\ text_ret.stat.success
       => /\ text_ret.str.head = TEXT_PREAMBLE
          /\ Len(text_ret.str.lines) >= 1
    /\ ~text_ret.stat.success
       => text_ret.str \in {TextSentinel, Report(TEXT_NO_RESULTS, <<>>)}

C24_StatusMatchesReport ==
    /\ ImageReturned => ImageConsistent
    /\ TextReturned => TextConsistent

C24_Witness ==
    /\ CacheHit
    /\ image_ret.stat.num_results >= 1
    /\ ~image_ret.stat.success
    /\ image_ret.str = ImageSentinel
====
